---- MODULE Spec2Model ----
(***************************************************************************)
(* HC908JB8 USB ICP Manager (tools/manage.c): a model of the flashing run. *)
(*                                                                         *)
(* The run is sequential: main() clears the ICP flag (optional), waits for *)
(* the bootloader device, parses the S19 file into hrm.mem, repairs the    *)
(* ICP flag, erases the window block by block and programs it.             *)
(*                                                                         *)
(* hrm.mem is an array of MEM_SIZE bytes.  It is held here as a fill byte  *)
(* plus the cells that differ from the fill byte (MemGet/MemSet), which    *)
(* denotes the same array and keeps the states small.                      *)
(***************************************************************************)
EXTENDS Integers, Sequences, FiniteSets, TLC

\* ---------------------------------------------------------------- constants

MAX_LINE_LEN == 512
MEM_SIZE == 7168
MEM_OFFSET == 56320
MEM_BLOCK_SIZE == 512
MEM_PROG_BLOCK_SIZE == 64
\* The delay of the program path cut down to that of the erase path.
WaitProgrammingShort == 70 - 65

WAIT_PROGRAMMING == 70
WAIT_STATUS == 5
WAIT_ERASE == 5
WAIT_RETRY == 1000
ICP_CHECKSUM_START == 62976
ICP_CHECKSUM_STOP == 63485
ICP_FLAG_ADDRESS == 63486
HRM_OK == 1
HRM_ERROR == -1
HRM_NO_ERRORS == 0
HRM_USB_OPEN_ERROR == 1
HRM_USB_CONFIG_ERROR == 2
HRM_FILE_OPEN_ERROR == 3
HRM_FLASH_ERASE_ERROR == 4
HRM_FLASH_PROGRAM_ERROR == 5
\* One attempt more than main's loop makes.
InitRetriesMore == 30 + 1

INIT_RETRIES == 30

\* The longest file the parser is run on, in lines.
MaxLines == 2

Byte == 0..255
NUL == "NUL"
NL == "\n"

\* ---------------------------------------------------------------- hrm.mem

\* unsigned char mem[MEM_SIZE]: cell k of the array m.
MemGet(m, k) == IF k \in DOMAIN m.at THEN m.at[k] ELSE m.fill

\* The function f on the set S only.
Restrict(f, S) == <<>> @@ [x \in S |-> f[x]]

\* mem[k] = v, for 0 <= k < MEM_SIZE.
MemSet(m, k, v) ==
  IF v = m.fill
    THEN IF k \in DOMAIN m.at
           THEN [m EXCEPT !.at = Restrict(m.at, (DOMAIN m.at) \ {k})]
           ELSE m
    ELSE [m EXCEPT !.at = (k :> v) @@ m.at]

\* for(i=0;i<MEM_SIZE;i++) mem[i]=v
MemFill(v) == [fill |-> v, at |-> <<>>]

\* ---------------------------------------------------------------- S-record text

HexDigits == <<"0","1","2","3","4","5","6","7","8","9","A","B","C","D","E","F">>

Hex2(b) == <<HexDigits[(b \div 16) + 1], HexDigits[(b % 16) + 1]>>

Hex4(w) == Hex2(w \div 256) \o Hex2(w % 256)

\* The two digits of every byte of data, in order.
HexBytes(data) ==
  [k \in 1..(2 * Len(data)) |-> Hex2(data[(k + 1) \div 2])[2 - (k % 2)]]

\* The sum of data[lo..hi].
RECURSIVE SumRange(_, _, _)
SumRange(data, lo, hi) ==
  IF lo > hi THEN 0
  ELSE IF lo = hi THEN data[lo]
  ELSE LET mid == (lo + hi) \div 2
       IN SumRange(data, lo, mid) + SumRange(data, mid + 1, hi)

SumBytes(data) == SumRange(data, 1, Len(data))

\* The checksum byte of an S1 record: one's complement of the low byte of
\* the sum of the count, the address bytes and the data.
S1Checksum(addr, data) ==
  255 - ((Len(data) + 3 + (addr \div 256) + (addr % 256) + SumBytes(data)) % 256)

\* The text of an input line, without its newline.  A line is a data record
\* [type |-> "S1", addr, data], the end record [type |-> "S9"], or other
\* text [type |-> "raw", text].
LineText(l) ==
  CASE l.type = "S1" ->
         <<"S", "1">> \o Hex2(Len(l.data) + 3) \o Hex4(l.addr)
           \o HexBytes(l.data) \o Hex2(S1Checksum(l.addr, l.data))
    [] l.type = "S9" -> <<"S", "9", "0", "3", "0", "0", "0", "0", "F", "C">>
    [] OTHER -> l.text

RECURSIVE FileText(_)
FileText(lines) ==
  IF lines = <<>> THEN <<>>
  ELSE LineText(Head(lines)) \o <<NL>> \o FileText(Tail(lines))

\* ---------------------------------------------------------------- libc

IsSpace(c) == c \in {" ", "\t", NL, "\r"}

\* The value of a hexadecimal digit, -1 for any other character.
HexVal(c) ==
  CASE c \in {"0","1","2","3","4","5","6","7","8","9"} ->
         (CHOOSE d \in 0..9 : HexDigits[d + 1] = c)
    [] c \in {"A","B","C","D","E","F"} ->
         (CHOOSE d \in 10..15 : HexDigits[d + 1] = c)
    [] c = "a" -> 10 [] c = "b" -> 11 [] c = "c" -> 12
    [] c = "d" -> 13 [] c = "e" -> 14 [] c = "f" -> 15
    [] OTHER -> -1

\* The digits of s from position k on, as a number continuing acc.
RECURSIVE HexRun(_, _, _)
HexRun(s, k, acc) ==
  IF k > Len(s) \/ HexVal(s[k]) < 0 THEN acc
  ELSE HexRun(s, k + 1, acc * 16 + HexVal(s[k]))

RECURSIVE SkipSpace(_, _)
SkipSpace(s, k) ==
  IF k <= Len(s) /\ IsSpace(s[k]) THEN SkipSpace(s, k + 1) ELSE k

\* strtoul(s, NULL, 16) converted to int: leading white space, an optional
\* sign, an optional 0x, then the longest run of hexadecimal digits; 0 when
\* there is none.  A minus sign negates the value (the unsigned long wraps,
\* and the conversion to int gives the negative number back).
Strtoul16(s) ==
  LET k0 == SkipSpace(s, 1)
      neg == k0 <= Len(s) /\ s[k0] = "-"
      k1 == IF k0 <= Len(s) /\ s[k0] \in {"+", "-"} THEN k0 + 1 ELSE k0
      pfx == /\ k1 + 2 <= Len(s)
             /\ s[k1] = "0"
             /\ s[k1 + 1] \in {"x", "X"}
             /\ HexVal(s[k1 + 2]) >= 0
      k2 == IF pfx THEN k1 + 2 ELSE k1
      v == HexRun(s, k2, 0)
  IN IF neg THEN 0 - v ELSE v

\* line[k] of the C string held in the buffer: the terminating NUL at and
\* (for this model's files) after the end of the text.
LineChar(line, k) == IF k < Len(line) THEN line[k + 1] ELSE NUL

\* strncpy(dst, line+off, n) with dst[n]=0: the string dst then holds, the
\* characters from line+off up to n of them, ending at a NUL.
RECURSIVE Strncpy(_, _, _)
Strncpy(line, off, n) ==
  IF n = 0 \/ LineChar(line, off) = NUL THEN <<>>
  ELSE <<LineChar(line, off)>> \o Strncpy(line, off + 1, n - 1)

\* The number of characters fgets(line, MAX_LINE_LEN, fp) reads at position
\* pos of the text: through the first newline, and at most MAX_LINE_LEN-1.
FgetsLen(text, pos) ==
  LET last == IF pos + MAX_LINE_LEN - 2 < Len(text)
                THEN pos + MAX_LINE_LEN - 2 ELSE Len(text)
      nls == {k \in pos..last : text[k] = NL}
  IN IF nls = {} THEN last - pos + 1
     ELSE (CHOOSE k \in nls : \A x \in nls : k <= x) - pos + 1

Fgets(text, pos) == SubSeq(text, pos, pos + FgetsLen(text, pos) - 1)

\* ---------------------------------------------------------------- HRM_ICP_ReadS19

\* hrm->mem[idx] = v on the struct h = [mem, verbose_mode, last_errorcode,
\* smashed].  The array is the last but two members of HRM_Data: a store
\* at MEM_SIZE lands on verbose_mode, one at MEM_SIZE+1 on last_errorcode,
\* and any other index outside the array on memory that is not hrm's
\* (smashed).
MemStore(h, idx, v) ==
  IF idx >= 0 /\ idx < MEM_SIZE THEN [h EXCEPT !.mem = MemSet(h.mem, idx, v)]
  ELSE IF idx = MEM_SIZE THEN [h EXCEPT !.verbose_mode = v]
  ELSE IF idx = MEM_SIZE + 1 THEN [h EXCEPT !.last_errorcode = v]
  ELSE [h EXCEPT !.smashed = TRUE]

\* OutOfRange without its test of the lower end of the window.
OutOfRangeUpperOnly(address) == address >= MEM_OFFSET + MEM_SIZE

\* The address-range test of a data record: TRUE when the record is skipped.
OutOfRange(address) ==
  (address < MEM_OFFSET) \/ (address >= MEM_OFFSET + MEM_SIZE)

\* The store of data byte i of the record in line.
DataStore(line, address, i, h) ==
  LET sdata == Strtoul16(Strncpy(line, 8 + 2 * i, 2)) % 256
  IN MemStore(h, address - MEM_OFFSET + i, sdata)

\* e, with v evaluated before it.  (TLC evaluates the arguments of an
\* operator on demand; a loop of hundreds of turns has to be evaluated turn
\* by turn.)
Forced(v, e) == IF v = v THEN e ELSE e

\* The stores of the data bytes lo..hi of the record, in the order of i: the
\* first half of the turns, then the second.
RECURSIVE DataRange(_, _, _, _, _)
DataRange(line, address, lo, hi, h) ==
  IF lo > hi THEN h
  ELSE IF lo = hi THEN DataStore(line, address, lo, h)
  ELSE LET mid == (lo + hi) \div 2
           first == DataRange(line, address, lo, mid, h)
       IN Forced(first, DataRange(line, address, mid + 1, hi, first))

\* for(i=0;i<datalen-3;i++): the data bytes of one record.  (calc_crc, crc,
\* readlen and calc_datalen are computed by the code and never read; they
\* are left out.)
DataLoop(line, address, datalen, h) ==
  DataRange(line, address, 0, datalen - 3 - 1, h)

\* while(!feof(fp)): the lines of the text from position pos on.
RECURSIVE ReadLoop(_, _, _)
ReadLoop(text, pos, h) ==
  IF pos > Len(text) THEN h
  ELSE LET line == Fgets(text, pos)
           next == pos + Len(line)
       IN IF LineChar(line, 0) = "S" /\ LineChar(line, 1) = "1"
            THEN LET datalen == Strtoul16(Strncpy(line, 2, 2))
                     address == Strtoul16(Strncpy(line, 4, 4))
                 IN IF OutOfRange(address)
                      THEN ReadLoop(text, next, h)
                      ELSE ReadLoop(text, next, DataLoop(line, address, datalen, h))
          ELSE IF LineChar(line, 0) = "S" /\ LineChar(line, 1) = "9"
            THEN h
          ELSE ReadLoop(text, next, h)

\* for(i=ICP_CHECKSUM_START;i<=ICP_CHECKSUM_STOP;i++): the sum of mem over
\* the addresses lo..hi (the range is halved to keep the evaluation shallow;
\* the sum stays far below 2^32).
RECURSIVE ChecksumLoop(_, _, _)
ChecksumLoop(m, lo, hi) ==
  IF lo > hi THEN 0
  ELSE IF lo = hi THEN MemGet(m, lo - MEM_OFFSET)
  ELSE LET mid == (lo + hi) \div 2
       IN ChecksumLoop(m, lo, mid) + ChecksumLoop(m, mid + 1, hi)

\* icp_flag_calculated of the image m (an unsigned int).
IcpFlagCalculated(m) ==
  65535 - (ChecksumLoop(m, ICP_CHECKSUM_START, ICP_CHECKSUM_STOP) % 65536) + 1

\* icp_flag of the image m: the two bytes at ICP_FLAG_ADDRESS, high first.
IcpFlagFromFile(m) ==
  MemGet(m, ICP_FLAG_ADDRESS - MEM_OFFSET) * 256
    + MemGet(m, ICP_FLAG_ADDRESS - MEM_OFFSET + 1)

\* The memory written before the file is opened.
InitMem == MemFill(255)

\* HRM_ICP_ReadS19 on an open file with the given text: the struct after
\* the parse, from the struct h before the call.
ReadS19(text, h) ==
  ReadLoop(text, 1, [h EXCEPT !.last_errorcode = 0, !.mem = InitMem])

\* ---------------------------------------------------------------- inputs

S1(addr, data) == [type |-> "S1", addr |-> addr, data |-> data]
S9 == [type |-> "S9"]
Raw(text) == [type |-> "raw", text |-> text]

\* 4 bytes at the start of the window.
RecFirst == S1(MEM_OFFSET, <<18, 52, 86, 120>>)
\* 2 bytes over the third and fourth byte of RecFirst, one of them 0xFF.
RecOver == S1(MEM_OFFSET + 2, <<171, 255>>)
\* 4 bytes from two below the window on.
RecBelow == S1(MEM_OFFSET - 2, <<1, 2, 3, 4>>)
\* 1 byte at the first address above the window.
RecAbove == S1(MEM_OFFSET + MEM_SIZE, <<85>>)
\* The ICP flag of an image whose checksum window is erased: 0x03FE.
RecFlag == S1(ICP_FLAG_ADDRESS, <<3, 254>>)
\* 4 bytes from the ICP flag on: two of them past the window.
RecPast == S1(ICP_FLAG_ADDRESS, <<17, 34, 1, 7>>)
\* 251 bytes at the start of the checksum window, 0x01 and 250 times 0x00,
\* and the next two bytes, 0x00: with them and the 257 erased bytes after
\* them the window sums to 0x10000.
RecSumZero == S1(ICP_CHECKSUM_START, [k \in 1..251 |-> IF k = 1 THEN 1 ELSE 0])
RecSumTail == S1(ICP_CHECKSUM_START + 251, <<0, 0>>)
\* The longest data record: byte count 0xFF, 252 bytes of 0x12.
RecLong == S1(MEM_OFFSET + MEM_PROG_BLOCK_SIZE, [k \in 1..252 |-> 18])
\* A record of the longest kind below the window.
RecLongBelow == S1(MEM_OFFSET - MEM_BLOCK_SIZE, [k \in 1..252 |-> 52])

\* Text that begins with no marker and fills one read of fgets.
Junk == [k \in 1..(MAX_LINE_LEN - 1) |-> "x"]

\* Lines that begin with that text and go on with the text of an end
\* record and of a data record.
RecJunkEnd == Raw(Junk \o LineText(S9))
RecJunkData == Raw(Junk \o LineText(RecFirst))

\* A header record.
RecHeader == Raw(<<"S", "0", "0", "3", "0", "0", "0", "0", "F", "C">>)

\* The lines the files are made of.
Lines ==
  {RecFirst, RecOver, RecBelow, RecAbove, RecFlag, RecPast, RecHeader, S9}

\* Files with a long line.
LongFiles ==
  {<<RecLong>>, <<RecHeader, RecLong, S9>>, <<RecSumZero>>,
   <<RecSumZero, RecSumTail>>, <<RecSumZero, RecSumTail, RecFirst>>,
   <<RecLongBelow, RecFirst>>, <<RecJunkEnd, RecFirst>>, <<RecJunkData>>}

\* The files the parser is run on: up to MaxLines of the lines, and the
\* files with a long record.
ParseFiles == (UNION {[1..n -> Lines] : n \in 0..MaxLines}) \cup LongFiles

\* The files a whole run is made on.
MainFiles ==
  {<<RecHeader, RecFirst, S9>>, <<RecOver, RecFlag>>, <<RecFirst, RecPast>>}

\* What the device answers; a negative number is a libusb error.
EraseRets == {0, -110}
ProgramRets == {MEM_PROG_BLOCK_SIZE, 32, -110}
StatusRets == {1, -110}
StatusBytes == {1, 0}

\* What an uninitialised hrm.mem on main's stack may hold.
StackGarbage == {0, 165}

\* ---------------------------------------------------------------- state

VARIABLES
  pc,                  \* where main is
  argc,                \* the number of command-line arguments
  i,                   \* main's retry counter
  usb_dev,             \* hrm.usb_dev: "unset", "null", "open" or "closed"
  hid_dev,             \* HRM_ClearICPFlag's dev: "none", "open" or "closed"
  mem,                 \* hrm.mem
  icp_flag,            \* hrm.icp_flag
  icp_flag_calculated, \* hrm.icp_flag_calculated
  verbose_mode,        \* hrm.verbose_mode
  last_errorcode,      \* hrm.last_errorcode
  smashed,             \* a store went past hrm (outside the struct)
  file,                \* the lines of the file read, <<>> before the read
  file_open,           \* fopen succeeded
  erase_i,             \* HRM_ICP_EraseFlash's i
  prog_i,              \* HRM_ICP_ProgramFlash's i
  result,              \* the local result (unsigned char) of the last transfer
  status,              \* the local status of the last status poll
  log,                 \* the transfers issued and the delays waited, in order
  exit_code            \* the argument of exit(), once pc = "exited"

vars ==
  <<pc, argc, i, usb_dev, hid_dev, mem, icp_flag, icp_flag_calculated,
    verbose_mode, last_errorcode, smashed, file, file_open, erase_i, prog_i,
    result, status, log, exit_code>>

Ev(op, a, d) == [op |-> op, a |-> a, d |-> d]
Sleep(ms) == Ev("sleep", ms, <<>>)

\* unsigned char result = usb_control_msg(...)
ToUChar(ret) == ret % 256

MemEnd == MEM_OFFSET + MEM_SIZE

Init ==
  /\ pc = "clear"
  /\ argc \in {2, 4}
  /\ i = INIT_RETRIES
  /\ usb_dev = "unset"
  /\ hid_dev = "none"
  /\ mem \in {MemFill(g) : g \in StackGarbage}
  /\ icp_flag = 0
  /\ icp_flag_calculated = 0
  /\ verbose_mode = 0
  /\ last_errorcode = 0
  /\ smashed = FALSE
  /\ file = <<>>
  /\ file_open = FALSE
  /\ erase_i = MEM_OFFSET
  /\ prog_i = MEM_OFFSET
  /\ result = 0
  /\ status = 0
  /\ log = <<>>
  /\ exit_code = 0

\* ---------------------------------------------------------------- main: USB set-up

\* exit(code): the process ends; nothing is closed on the way.
Exit(code) == pc' = "exited" /\ exit_code' = code

\* main, lines 541-559, with HRM_ClearICPFlag: the keys are given.
HRM_ClearICPFlag ==
  /\ pc = "clear"
  /\ argc >= 4
  /\ \/ \* HRM_OpenUSB finds no HID device
        /\ hid_dev' = hid_dev
        /\ log' = log
        /\ Exit(HRM_ERROR)
     \/ \* usb_set_configuration fails
        /\ hid_dev' = "closed"
        /\ log' = log
        /\ Exit(HRM_ERROR)
     \/ \* the Set Feature transfer is sent, its result not looked at
        /\ hid_dev' = "closed"
        /\ log' = Append(log, Ev("setfeature", 0, <<>>))
        /\ pc' = "init"
        /\ exit_code' = exit_code
  /\ UNCHANGED <<argc, i, usb_dev, mem, icp_flag, icp_flag_calculated,
                 verbose_mode, last_errorcode, smashed, file, file_open,
                 erase_i, prog_i, result, status>>

\* main, line 541: no keys are given.
NoClearICPFlag ==
  /\ pc = "clear"
  /\ ~(argc >= 4)
  /\ pc' = "init"
  /\ UNCHANGED <<argc, i, usb_dev, hid_dev, mem, icp_flag, icp_flag_calculated,
                 verbose_mode, last_errorcode, smashed, file, file_open,
                 erase_i, prog_i, result, status, log, exit_code>>

\* Where the retry loop goes after a failed attempt: i--, then i>0.
AfterFailedInit(n) == IF n - 1 > 0 THEN "init" ELSE "init_check"

\* UsbDevAfterInit without the usb_close of line 202.
UsbDevAfterInitNoClose(outcome) == IF outcome = "absent" THEN "null" ELSE "open"

\* hrm->usb_dev when HRM_ICP_InitUSB returns: NULL when no device was
\* found, a closed handle when the configuration failed, an open one else.
UsbDevAfterInit(outcome) ==
  CASE outcome = "absent" -> "null"
    [] outcome = "config" -> "closed"
    [] outcome = "ok" -> "open"

\* One turn of main's retry loop, lines 562-569, with HRM_ICP_InitUSB.
HRM_ICP_InitUSB ==
  /\ pc = "init"
  /\ i > 0
  /\ \/ \* the bootloader device is not found
        /\ usb_dev' = UsbDevAfterInit("absent")
        /\ last_errorcode' = HRM_USB_OPEN_ERROR
        /\ log' = Append(log, Sleep(WAIT_RETRY))
        /\ i' = i - 1
        /\ pc' = AfterFailedInit(i)
     \/ \* usb_set_configuration fails: the handle is closed
        /\ usb_dev' = UsbDevAfterInit("config")
        /\ last_errorcode' = HRM_USB_CONFIG_ERROR
        /\ log' = Append(log, Sleep(WAIT_RETRY))
        /\ i' = i - 1
        /\ pc' = AfterFailedInit(i)
     \/ \* HRM_OK: break
        /\ usb_dev' = UsbDevAfterInit("ok")
        /\ last_errorcode' = 0
        /\ log' = log
        /\ i' = i
        /\ pc' = "init_check"
  /\ UNCHANGED <<argc, hid_dev, mem, icp_flag, icp_flag_calculated,
                 verbose_mode, smashed, file, file_open, erase_i, prog_i,
                 result, status, exit_code>>

\* Where main goes on after a HRM_CheckError that does not exit.
AfterCheck(at) ==
  CASE at = "init_check" -> "setup"
    [] at = "read_check" -> "flag"
    [] at = "erase_check" -> "program_enter"
    [] at = "program_check" -> "close"

\* HRM_CheckError, at each of its four calls in main.
HRM_CheckError ==
  /\ pc \in {"init_check", "read_check", "erase_check", "program_check"}
  /\ IF last_errorcode > 0
       THEN Exit(last_errorcode)
       ELSE pc' = AfterCheck(pc) /\ exit_code' = exit_code
  /\ UNCHANGED <<argc, i, usb_dev, hid_dev, mem, icp_flag, icp_flag_calculated,
                 verbose_mode, last_errorcode, smashed, file, file_open,
                 erase_i, prog_i, result, status, log>>

\* main, lines 574-577.
Setup ==
  /\ pc = "setup"
  /\ verbose_mode' = 1
  /\ pc' = "read"
  /\ UNCHANGED <<argc, i, usb_dev, hid_dev, mem, icp_flag, icp_flag_calculated,
                 last_errorcode, smashed, file, file_open, erase_i, prog_i,
                 result, status, log, exit_code>>

\* ---------------------------------------------------------------- main: the file

\* HRM_ICP_ReadS19 called by main, line 583, on one of the given files or
\* on a file that cannot be opened.
HRM_ICP_ReadS19(files) ==
  /\ pc = "read"
  /\ \/ \* fopen fails, after the memory was filled
        /\ mem' = InitMem
        /\ last_errorcode' = HRM_FILE_OPEN_ERROR
        /\ UNCHANGED <<file, file_open, icp_flag, icp_flag_calculated,
                       verbose_mode, smashed>>
     \/ \E f \in files :
          LET h == ReadS19(FileText(f),
                           [mem |-> mem, verbose_mode |-> verbose_mode,
                            last_errorcode |-> last_errorcode,
                            smashed |-> smashed])
          IN /\ file' = f
             /\ file_open' = TRUE
             /\ mem' = h.mem
             /\ verbose_mode' = h.verbose_mode
             /\ last_errorcode' = h.last_errorcode
             /\ smashed' = h.smashed
             /\ icp_flag_calculated' = IcpFlagCalculated(h.mem)
             /\ icp_flag' = IcpFlagFromFile(h.mem)
  /\ pc' = "read_check"
  /\ UNCHANGED <<argc, i, usb_dev, hid_dev, erase_i, prog_i, result, status,
                 log, exit_code>>

\* RepairFlag with the high byte stored at ICP_CHECKSUM_STOP.
RepairFlagAtStop(m, flag, calc) ==
  IF flag # calc
    THEN MemSet(MemSet(m, ICP_CHECKSUM_STOP - MEM_OFFSET, (calc \div 256) % 256),
                ICP_FLAG_ADDRESS - MEM_OFFSET + 1, calc % 256)
    ELSE m

\* main, lines 593-606: the image with the ICP flag made equal to calc.
RepairFlag(m, flag, calc) ==
  IF flag # calc
    THEN MemSet(MemSet(m, ICP_FLAG_ADDRESS - MEM_OFFSET, (calc \div 256) % 256),
                ICP_FLAG_ADDRESS - MEM_OFFSET + 1, calc % 256)
    ELSE m

FixICPFlag ==
  /\ pc = "flag"
  /\ mem' = RepairFlag(mem, icp_flag, icp_flag_calculated)
  /\ pc' = "erase_enter"
  /\ UNCHANGED <<argc, i, usb_dev, hid_dev, icp_flag, icp_flag_calculated,
                 verbose_mode, last_errorcode, smashed, file, file_open,
                 erase_i, prog_i, result, status, log, exit_code>>

\* ---------------------------------------------------------------- erase

\* HRM_ICP_EraseFlash, lines 376-382: entry.
EraseFlashEnter ==
  /\ pc = "erase_enter"
  /\ last_errorcode' = 0
  /\ erase_i' = MEM_OFFSET
  /\ pc' = "erase"
  /\ UNCHANGED <<argc, i, usb_dev, hid_dev, mem, icp_flag, icp_flag_calculated,
                 verbose_mode, smashed, file, file_open, prog_i, result,
                 status, log, exit_code>>

\* HRM_ICP_EraseFlashBlock, lines 325-347: the erase transfer of the block
\* at erase_i and the delay after it.
EraseFlashBlockIssue ==
  /\ pc = "erase"
  /\ erase_i < MemEnd
  /\ IF usb_dev = "null"
       THEN /\ last_errorcode' = HRM_FLASH_ERASE_ERROR
            /\ pc' = "erase_check"
            /\ UNCHANGED <<result, log>>
       ELSE \E ret \in EraseRets :
              /\ last_errorcode' = 0
              /\ result' = ToUChar(ret)
              /\ log' = log \o <<Ev("erase", erase_i, <<>>), Sleep(WAIT_ERASE)>>
              /\ pc' = "erase_poll"
  /\ UNCHANGED <<argc, i, usb_dev, hid_dev, mem, icp_flag, icp_flag_calculated,
                 verbose_mode, smashed, file, file_open, erase_i, prog_i,
                 status, exit_code>>

\* EraseBlockFailed with the test of line 462 in its place.
EraseBlockFailedResultOnly(st, res) == (res # 1) \/ (res # 1)

\* The test of line 360: the block failed.
EraseBlockFailed(st, res) == (st # 1) \/ (res # 1)

\* HRM_ICP_EraseFlashBlock, lines 348-364, and the loop of HRM_ICP_EraseFlash
\* around it: the status poll, the delay and the verdict.  The status byte
\* is the device's when the poll returned it, and what the stack held
\* otherwise.
EraseFlashBlockPoll ==
  /\ pc = "erase_poll"
  /\ \E ret \in StatusRets, st \in StatusBytes :
       /\ result' = ToUChar(ret)
       /\ status' = st
       /\ log' = log \o <<Ev("status", 0, <<>>), Sleep(WAIT_STATUS)>>
       /\ IF EraseBlockFailed(st, ToUChar(ret))
            THEN /\ last_errorcode' = HRM_FLASH_ERASE_ERROR
                 /\ pc' = "erase_check"
                 /\ erase_i' = erase_i
            ELSE /\ last_errorcode' = last_errorcode
                 /\ pc' = "erase"
                 /\ erase_i' = erase_i + MEM_BLOCK_SIZE
  /\ UNCHANGED <<argc, i, usb_dev, hid_dev, mem, icp_flag, icp_flag_calculated,
                 verbose_mode, smashed, file, file_open, prog_i, exit_code>>

\* HRM_ICP_EraseFlash, lines 382 and 394-395: the loop is through.
EraseFlashDone ==
  /\ pc = "erase"
  /\ ~(erase_i < MemEnd)
  /\ pc' = "erase_check"
  /\ UNCHANGED <<argc, i, usb_dev, hid_dev, mem, icp_flag, icp_flag_calculated,
                 verbose_mode, last_errorcode, smashed, file, file_open,
                 erase_i, prog_i, result, status, log, exit_code>>

\* ---------------------------------------------------------------- program

\* HRM_ICP_ProgramFlash, lines 408-414: entry.
ProgramFlashEnter ==
  /\ pc = "program_enter"
  /\ last_errorcode' = 0
  /\ prog_i' = MEM_OFFSET
  /\ pc' = "program"
  /\ UNCHANGED <<argc, i, usb_dev, hid_dev, mem, icp_flag, icp_flag_calculated,
                 verbose_mode, smashed, file, file_open, erase_i, result,
                 status, log, exit_code>>

\* Lines 422-428: valid, for the block at address a, scanned from byte j on.
RECURSIVE ValidLoop(_, _, _)
ValidLoop(m, a, j) ==
  IF ~(j < MEM_PROG_BLOCK_SIZE) THEN 0
  ELSE IF MemGet(m, a - MEM_OFFSET + j) # 255 THEN 1
  ELSE ValidLoop(m, a, j + 1)

\* valid from the first byte of the block alone.
BlockValidFirstByte(m, a) == IF MemGet(m, a - MEM_OFFSET) # 255 THEN 1 ELSE 0

\* valid from a scan that stops one byte short of the block's end.
BlockValidShort(m, a) ==
  IF \E j \in 0..(MEM_PROG_BLOCK_SIZE - 2) : MemGet(m, a - MEM_OFFSET + j) # 255
    THEN 1 ELSE 0

\* valid, as lines 420-428 leave it for the block at address a.
BlockValid(m, a) == ValidLoop(m, a, 0)

\* hrm->mem + i-MEM_OFFSET, MEM_PROG_BLOCK_SIZE bytes: the payload.
BlockData(m, a) == [j \in 1..MEM_PROG_BLOCK_SIZE |-> MemGet(m, a - MEM_OFFSET + j - 1)]

\* Lines 430 and 471-476: a block of 0xFF only is passed over.
ProgramBlockSkip ==
  /\ pc = "program"
  /\ prog_i < MemEnd
  /\ BlockValid(mem, prog_i) = 0
  /\ prog_i' = prog_i + MEM_PROG_BLOCK_SIZE
  /\ UNCHANGED <<pc, argc, i, usb_dev, hid_dev, mem, icp_flag,
                 icp_flag_calculated, verbose_mode, last_errorcode, smashed,
                 file, file_open, erase_i, result, status, log, exit_code>>

\* The test of line 443: the program transfer failed.
ProgramIssueFailed(res) == res # MEM_PROG_BLOCK_SIZE

\* Lines 430-448: the program transfer of the block at prog_i.
ProgramBlockIssue ==
  /\ pc = "program"
  /\ prog_i < MemEnd
  /\ BlockValid(mem, prog_i) # 0
  /\ \E ret \in ProgramRets :
       /\ result' = ToUChar(ret)
       /\ IF ProgramIssueFailed(ToUChar(ret))
            THEN /\ log' = Append(log, Ev("program", prog_i, BlockData(mem, prog_i)))
                 /\ last_errorcode' = HRM_FLASH_PROGRAM_ERROR
                 /\ pc' = "program_check"
            ELSE /\ log' = log \o <<Ev("program", prog_i, BlockData(mem, prog_i)),
                                    Sleep(WAIT_PROGRAMMING)>>
                 /\ last_errorcode' = last_errorcode
                 /\ pc' = "program_poll"
  /\ UNCHANGED <<argc, i, usb_dev, hid_dev, mem, icp_flag, icp_flag_calculated,
                 verbose_mode, smashed, file, file_open, erase_i, prog_i,
                 status, exit_code>>

\* ProgramPollFailed that never reports a failure.
ProgramPollNeverFailed(st, res) == FALSE

\* The test of line 462: the status poll failed.  The status byte is not
\* part of it.
ProgramPollFailed(st, res) == (res # 1) \/ (res # 1)

\* Lines 450-476: the status poll of the block at prog_i.
ProgramBlockPoll ==
  /\ pc = "program_poll"
  /\ \E ret \in StatusRets, st \in StatusBytes :
       /\ result' = ToUChar(ret)
       /\ status' = st
       /\ IF ProgramPollFailed(st, ToUChar(ret))
            THEN /\ log' = Append(log, Ev("status", 0, <<>>))
                 /\ last_errorcode' = HRM_FLASH_PROGRAM_ERROR
                 /\ pc' = "program_check"
                 /\ prog_i' = prog_i
            ELSE /\ log' = log \o <<Ev("status", 0, <<>>), Sleep(WAIT_STATUS)>>
                 /\ last_errorcode' = last_errorcode
                 /\ pc' = "program"
                 /\ prog_i' = prog_i + MEM_PROG_BLOCK_SIZE
  /\ UNCHANGED <<argc, i, usb_dev, hid_dev, mem, icp_flag, icp_flag_calculated,
                 verbose_mode, smashed, file, file_open, erase_i, exit_code>>

\* Lines 414 and 479-481: the loop is through.
ProgramFlashDone ==
  /\ pc = "program"
  /\ ~(prog_i < MemEnd)
  /\ pc' = "program_check"
  /\ UNCHANGED <<argc, i, usb_dev, hid_dev, mem, icp_flag, icp_flag_calculated,
                 verbose_mode, last_errorcode, smashed, file, file_open,
                 erase_i, prog_i, result, status, log, exit_code>>

\* main, lines 618-620: HRM_ICP_CloseUSB and exit(0).
CloseAndExit ==
  /\ pc = "close"
  /\ usb_dev' = "closed"
  /\ Exit(0)
  /\ UNCHANGED <<argc, i, hid_dev, mem, icp_flag, icp_flag_calculated,
                 verbose_mode, last_errorcode, smashed, file, file_open,
                 erase_i, prog_i, result, status, log>>

\* ---------------------------------------------------------------- specifications

\* The steps from the parse to the end of the run.
Flash ==
  \/ FixICPFlag
  \/ EraseFlashEnter
  \/ EraseFlashBlockIssue
  \/ EraseFlashBlockPoll
  \/ EraseFlashDone
  \/ ProgramFlashEnter
  \/ ProgramBlockSkip
  \/ ProgramBlockIssue
  \/ ProgramBlockPoll
  \/ ProgramFlashDone
  \/ CloseAndExit

\* A whole run of main.
Next ==
  \/ HRM_ClearICPFlag
  \/ NoClearICPFlag
  \/ HRM_ICP_InitUSB
  \/ HRM_CheckError
  \/ Setup
  \/ HRM_ICP_ReadS19(MainFiles)
  \/ Flash

Spec == Init /\ [][Next]_vars

\* A whole run of main that goes on while it has a step to take: the
\* process is sequential and every call of it returns (the transfers have
\* a timeout of 10 s, the sleeps are finite).
SpecLive == Spec /\ WF_vars(Next)

\* main at the call of HRM_ICP_ReadS19, the device found at the first
\* attempt and no keys given.
InitRead ==
  /\ pc = "read"
  /\ argc = 2
  /\ i = INIT_RETRIES
  /\ usb_dev = "open"
  /\ hid_dev = "none"
  /\ mem \in {MemFill(g) : g \in StackGarbage}
  /\ icp_flag = 0
  /\ icp_flag_calculated = 0
  /\ verbose_mode = 1
  /\ last_errorcode = 0
  /\ smashed = FALSE
  /\ file = <<>>
  /\ file_open = FALSE
  /\ erase_i = MEM_OFFSET
  /\ prog_i = MEM_OFFSET
  /\ result = 0
  /\ status = 0
  /\ log = <<>>
  /\ exit_code = 0

\* The parse of any of the files of ParseFiles, and the repair of the flag.
NextParse ==
  \/ HRM_ICP_ReadS19(ParseFiles)
  \/ HRM_CheckError
  \/ FixICPFlag

SpecParse == InitRead /\ [][NextParse]_vars

\* The cells of the image that the program phase is tried on.
ProbeCells == {0, MEM_PROG_BLOCK_SIZE - 1, MEM_PROG_BLOCK_SIZE, MEM_SIZE - 1}

\* Images of HRM_ICP_ProgramFlash: 0xFF only, one cell that is not 0xFF,
\* two such cells in two blocks, and the image of a file.
ProgramImages ==
  {InitMem}
    \cup {MemSet(InitMem, k, 0) : k \in ProbeCells}
    \cup {MemSet(MemSet(InitMem, 0, 18), MEM_SIZE - 1, 254)}
    \cup {ReadS19(FileText(<<RecFirst, RecLong>>),
                  [mem |-> InitMem, verbose_mode |-> 1, last_errorcode |-> 0,
                   smashed |-> FALSE]).mem}

\* main at the call of HRM_ICP_ProgramFlash, line 614, after an erase
\* phase that went through.
InitProgram ==
  /\ pc = "program_enter"
  /\ argc = 2
  /\ i = INIT_RETRIES
  /\ usb_dev = "open"
  /\ hid_dev = "none"
  /\ mem \in ProgramImages
  /\ icp_flag = IcpFlagFromFile(mem)
  /\ icp_flag_calculated = IcpFlagCalculated(mem)
  /\ verbose_mode = 1
  /\ last_errorcode = 0
  /\ smashed = FALSE
  /\ file = <<>>
  /\ file_open = TRUE
  /\ erase_i = MemEnd
  /\ prog_i \in StackGarbage
  /\ result = 1
  /\ status = 1
  /\ log = <<>>
  /\ exit_code = 0

NextProgram ==
  \/ ProgramFlashEnter
  \/ ProgramBlockSkip
  \/ ProgramBlockIssue
  \/ ProgramBlockPoll
  \/ ProgramFlashDone
  \/ HRM_CheckError
  \/ CloseAndExit

SpecProgram == InitProgram /\ [][NextProgram]_vars

\* ---------------------------------------------------------------- the parser's claims

\* The lines of f that are read: those before the first end record.
ReadLines(f) ==
  LET ends == {n \in 1..Len(f) : f[n].type = "S9"}
  IN IF ends = {} THEN f
     ELSE SubSeq(f, 1, (CHOOSE n \in ends : \A x \in ends : n <= x) - 1)

\* l is a data record with its address in the window.
InWindow(l) ==
  l.type = "S1" /\ l.addr >= MEM_OFFSET /\ l.addr < MEM_OFFSET + MEM_SIZE

\* The data of the in-window record l covers cell idx of the image.
Covers(l, idx) ==
  InWindow(l) /\ idx - (l.addr - MEM_OFFSET) \in 0..(Len(l.data) - 1)

\* f without its data records outside the window.
WithoutOutside(f) == SelectSeq(f, LAMBDA l : l.type # "S1" \/ InWindow(l))

\* hrm as main passes it to HRM_ICP_ReadS19.
HrmAtRead ==
  [mem |-> InitMem, verbose_mode |-> 1, last_errorcode |-> 0, smashed |-> FALSE]

Parsed == pc = "read_check" /\ file_open

\* C8: after the parse, every cell of the image covered by the data of an
\* in-window data record holds the byte of the last such record covering
\* it, and every cell covered by none holds 0xFF.
C8_PayloadStored ==
  Parsed =>
    LET rl == ReadLines(file)
    IN /\ \A n \in 1..Len(rl) :
            InWindow(rl[n]) =>
              \A k \in 0..(Len(rl[n].data) - 1) :
                LET idx == rl[n].addr - MEM_OFFSET + k
                IN (idx < MEM_SIZE /\ \A n2 \in (n + 1)..Len(rl) : ~Covers(rl[n2], idx))
                     => MemGet(mem, idx) = rl[n].data[k + 1]
       /\ \A idx \in 0..(MEM_SIZE - 1) :
            (\A n \in 1..Len(rl) : ~Covers(rl[n], idx)) => MemGet(mem, idx) = 255

\* C9: the parse of a file leaves hrm as the parse of the same file without
\* its out-of-window data records does: the same image, and no error code
\* that the other parse does not leave.
C9_OutsideIgnored ==
  Parsed =>
    LET h == ReadS19(FileText(WithoutOutside(file)), HrmAtRead)
    IN /\ mem = h.mem
       /\ last_errorcode = h.last_errorcode
       /\ verbose_mode = h.verbose_mode
       /\ smashed = h.smashed

\* A file with a record on each side of the window and records in it was
\* parsed.
C9_Witness ==
  /\ Parsed
  /\ \E n \in 1..Len(file) : file[n] = RecBelow
  /\ \E n \in 1..Len(file) : file[n] = RecFirst
  /\ MemGet(mem, 0) = 18

\* C4: after the repair, the flag computed over the checksum window equals
\* the flag read at ICP_FLAG_ADDRESS.
C4_RepairEstablishesFlag ==
  pc = "erase_enter" => IcpFlagCalculated(mem) = IcpFlagFromFile(mem)

FlagCells == {ICP_FLAG_ADDRESS - MEM_OFFSET, ICP_FLAG_ADDRESS - MEM_OFFSET + 1}

\* A step that changes no cell of the image other than the two flag cells,
\* and no cell at all when the flag of the file equals the calculated one.
RepairFrameStep ==
  pc \in {"read_check", "flag", "erase_enter"} =>
    /\ \A idx \in (0..(MEM_SIZE - 1)) \ FlagCells :
         MemGet(mem', idx) = MemGet(mem, idx)
    /\ (icp_flag = icp_flag_calculated => mem' = mem)

\* C10: from the end of the parse to the erase phase no step changes a cell
\* of the image other than the two flag cells, and none changes any cell
\* when the flag of the file equals the calculated one.
C10_RepairFrame == [][RepairFrameStep]_vars

\* The repair step was taken on a file whose flag equals the calculated one.
C10_Witness ==
  /\ pc = "erase_enter"
  /\ icp_flag = icp_flag_calculated
  /\ \E n \in 1..Len(file) : file[n] = RecFlag
  /\ IcpFlagFromFile(mem) = icp_flag

\* ---------------------------------------------------------------- the flash claims

\* The events of l with operation op, and their addresses.
Ops(l, op) == SelectSeq(l, LAMBDA e : e.op = op)

Addrs(l, op) == [k \in 1..Len(Ops(l, op)) |-> Ops(l, op)[k].a]

\* The last transfer of the log is the status poll that follows a transfer
\* op, with or without the delay after it.
LastPollOf(op) ==
  \E k \in {Len(log) - 1, Len(log)} :
    k >= 3 /\ log[k].op = "status" /\ log[k - 2].op = op

\* The last transfer of the log is a transfer op.
LastTransferIs(op) == Len(log) >= 1 /\ log[Len(log)].op = op

ProgramAborted ==
  /\ last_errorcode = HRM_FLASH_PROGRAM_ERROR
  /\ pc \in {"program_check", "exited"}
  /\ pc = "exited" => exit_code = HRM_FLASH_PROGRAM_ERROR

\* C1: a block whose program transfer did not return 64 bytes, or whose
\* status poll did not return one byte, or returned a status byte other
\* than 1, aborts the program phase with last_errorcode = 5; no such
\* block is followed by the next block.
C1_ProgramStatusDecides ==
  /\ (LastTransferIs("program") /\ result # MEM_PROG_BLOCK_SIZE) => ProgramAborted
  /\ (LastPollOf("program") /\ (result # 1 \/ status # 1)) => ProgramAborted

\* C2: once the status poll of an erase transfer has not returned the
\* status byte 1, the run is at HRM_CheckError with error 4 or has exited
\* with 4; the failed block's transfer is the last erase transfer and no
\* program transfer is in the log.
C2_EraseStatusAborts ==
  (LastPollOf("erase") /\ status # 1) =>
    /\ pc \in {"erase_check", "exited"}
    /\ last_errorcode = HRM_FLASH_ERASE_ERROR
    /\ pc = "exited" => exit_code = HRM_FLASH_ERASE_ERROR
    /\ Len(Ops(log, "erase")) = (erase_i - MEM_OFFSET) \div MEM_BLOCK_SIZE + 1
    /\ Ops(log, "program") = <<>>

\* The device answered the poll of the third erase transfer with status 0
\* and the run has exited.
C2_Witness ==
  /\ pc = "exited"
  /\ exit_code = HRM_FLASH_ERASE_ERROR
  /\ LastPollOf("erase")
  /\ result = 1
  /\ status = 0
  /\ Len(Ops(log, "erase")) = 3

\* The data records of f.
DataRecords(f) == SelectSeq(f, LAMBDA l : l.type = "S1")

\* f has one data record: 4 bytes at MEM_OFFSET.
OneRecordFile(f) ==
  /\ Len(DataRecords(f)) = 1
  /\ DataRecords(f)[1].addr = MEM_OFFSET
  /\ Len(DataRecords(f)[1].data) = 4

\* Cell idx of the image that the one record of f gives.
OneRecordCell(f, idx) ==
  IF idx < 4 THEN DataRecords(f)[1].data[idx + 1] ELSE 255

\* The addresses of all erase blocks, in order.
AllEraseBlocks ==
  [k \in 1..(MEM_SIZE \div MEM_BLOCK_SIZE) |-> MEM_OFFSET + (k - 1) * MEM_BLOCK_SIZE]

RunCompleted == pc = "exited" /\ exit_code = 0

\* C3, as the spec words it: a completed run on a file with one data
\* record of 4 bytes at 0xDC00 ends with those 4 bytes at offset 0 of the
\* image and 0xFF elsewhere, 14 erase transfers and one program transfer,
\* of the block at 0xDC00.
C3_OneProgramTransfer ==
  (RunCompleted /\ file_open /\ OneRecordFile(file)) =>
    /\ \A idx \in 0..(MEM_SIZE - 1) : MemGet(mem, idx) = OneRecordCell(file, idx)
    /\ Len(Ops(log, "erase")) = 14
    /\ Addrs(log, "program") = <<MEM_OFFSET>>

\* C3, amended, for 4 bytes that are not all 0xFF: the parse leaves those 4 bytes at offset 0 and 0xFF
\* elsewhere; the repair then stores the calculated flag 0x03FE in the two
\* flag cells; the run issues the 14 erase transfers and two program
\* transfers, of the block at 0xDC00 and of the last block, 0xF7C0, which
\* holds the flag.
C3_TwoProgramTransfers ==
  /\ (Parsed /\ OneRecordFile(file)) =>
       \A idx \in 0..(MEM_SIZE - 1) : MemGet(mem, idx) = OneRecordCell(file, idx)
  /\ (RunCompleted /\ file_open /\ OneRecordFile(file)
        /\ \E idx \in 0..3 : OneRecordCell(file, idx) # 255) =>
       /\ \A idx \in (0..(MEM_SIZE - 1)) \ FlagCells :
            MemGet(mem, idx) = OneRecordCell(file, idx)
       /\ IcpFlagFromFile(mem) = 1022
       /\ Addrs(log, "erase") = AllEraseBlocks
       /\ Len(AllEraseBlocks) = 14
       /\ Addrs(log, "program") = <<MEM_OFFSET, MemEnd - MEM_PROG_BLOCK_SIZE>>

\* A run on the one-record file has completed.
C3_Witness ==
  /\ RunCompleted
  /\ file_open
  /\ OneRecordFile(file)
  /\ Len(Ops(log, "program")) = 2
  /\ MemGet(mem, 0) = 18

\* C5: a run that has exited does not hold the bootloader's handle open.
C5_ClosedOnExit == pc = "exited" => usb_dev # "open"

\* C6: the exit code of a run is in 0..5 and is 0 exactly when the erase
\* and the program phase went through, 1 when the device was not found, 2
\* when it was not configured, 3 when the file was not opened, 4 when an
\* erase block failed and 5 when a program block failed.
C6_ExitCodes ==
  pc = "exited" =>
    /\ exit_code \in 0..5
    /\ exit_code = 0 <=> (file_open /\ erase_i = MemEnd /\ prog_i = MemEnd
                            /\ usb_dev = "closed")
    /\ exit_code = HRM_USB_OPEN_ERROR => usb_dev = "null"
    /\ exit_code = HRM_USB_CONFIG_ERROR => (usb_dev = "closed" /\ ~file_open)
    /\ exit_code = HRM_FILE_OPEN_ERROR => (usb_dev = "open" /\ ~file_open)
    /\ exit_code = HRM_FLASH_ERASE_ERROR => (LastPollOf("erase") /\ erase_i < MemEnd)
    /\ exit_code = HRM_FLASH_PROGRAM_ERROR => prog_i < MemEnd

\* ---------------------------------------------------------------- the program phase's claim

\* The addresses of the program blocks.
ProgramBlocks ==
  {MEM_OFFSET + k * MEM_PROG_BLOCK_SIZE : k \in 0..(MEM_SIZE \div MEM_PROG_BLOCK_SIZE - 1)}

\* The block at a holds a byte other than 0xFF.
HasData(m, a) ==
  \E j \in 0..(MEM_PROG_BLOCK_SIZE - 1) : MemGet(m, a - MEM_OFFSET + j) # 255

\* The 64 bytes of the block at a.
BlockBytes(m, a) ==
  [j \in 1..MEM_PROG_BLOCK_SIZE |-> MemGet(m, a - MEM_OFFSET + j - 1)]

\* The blocks the program phase has dealt with: those below prog_i, and
\* the one at prog_i once its transfer is out.
DealtWith ==
  {a \in ProgramBlocks :
     a < prog_i \/ (a = prog_i /\ pc \notin {"program_enter", "program"})}

\* The elements of the set S of numbers, in increasing order.
Ascending(S) ==
  [k \in 1..Cardinality(S) |->
     CHOOSE a \in S : Cardinality({b \in S : b < a}) = k - 1]

\* C7: the program transfers of the program phase are those of the blocks
\* dealt with that hold a byte other than 0xFF, one for each, in
\* increasing order of address, each with the block's address and the
\* block's 64 bytes.
C7_ProgramsDataBlocks ==
  pc # "program_enter" =>
    LET blocks == Ascending({a \in DealtWith : HasData(mem, a)})
    IN Ops(log, "program") =
         [k \in 1..Len(blocks) |-> Ev("program", blocks[k], BlockBytes(mem, blocks[k]))]

\* The program phase went through on an image whose one cell that is not
\* 0xFF is the last of the first block.
C7_Witness ==
  /\ pc = "close"
  /\ mem = MemSet(InitMem, MEM_PROG_BLOCK_SIZE - 1, 0)
  /\ Addrs(log, "program") = <<MEM_OFFSET>>
  /\ Ops(log, "program")[1].d[MEM_PROG_BLOCK_SIZE] = 0

\* ---------------------------------------------------------------- transfers' results and the retry loop

\* The verdict of an erase block whose erase transfer did not return its
\* 0 bytes: the block has failed with the flash-erase error.
EraseIssueStep ==
  (pc = "erase_poll" /\ result # 0) =>
    (pc' = "erase_check" /\ last_errorcode' = HRM_FLASH_ERASE_ERROR)

\* C11: an erase block whose erase transfer returned a transport error is
\* reported as failed with the flash-erase error, whatever the status poll
\* after it returns.
C11_EraseIssueDecides == [][EraseIssueStep]_vars

\* C12: once usb_set_configuration has failed, which leaves the handle
\* closed and last_errorcode = 2, the run is at HRM_CheckError or has
\* exited with 2; HRM_ICP_InitUSB is not tried again.
C12_ConfigFailureFatal ==
  (usb_dev = "closed" /\ last_errorcode = HRM_USB_CONFIG_ERROR) =>
    /\ pc \in {"init_check", "exited"}
    /\ pc = "exited" => exit_code = HRM_USB_CONFIG_ERROR

\* C13: after the parse, icp_flag_calculated is a 16-bit value and, added
\* to the sum of the bytes of the checksum window, gives 0 modulo 65536.
C13_FlagIs16Bit ==
  Parsed =>
    /\ icp_flag_calculated \in 0..65535
    /\ (ChecksumLoop(mem, ICP_CHECKSUM_START, ICP_CHECKSUM_STOP)
          + icp_flag_calculated) % 65536 = 0

\* C14: the parse of an opened file writes no byte outside hrm->mem: the
\* members of hrm after mem hold what they held at the call (verbose_mode)
\* or what the function's entry gave them (last_errorcode = 0), and no
\* byte after hrm's members is written.
C14_WritesInsideMem ==
  Parsed =>
    /\ verbose_mode = HrmAtRead.verbose_mode
    /\ last_errorcode = HRM_NO_ERRORS
    /\ smashed = FALSE

\* ---------------------------------------------------------------- the order of the phases

\* The positions in the log of the events with operation op.
Positions(op) == {k \in 1..Len(log) : log[k].op = op}

\* s is strictly increasing.
Increasing(s) == \A k \in 1..(Len(s) - 1) : s[k] < s[k + 1]

\* The flag cells hold the calculated flag's two bytes where it differed
\* from the file's flag, and the file's flag where it did not.
FlagRepaired ==
  IF icp_flag # icp_flag_calculated
    THEN /\ MemGet(mem, ICP_FLAG_ADDRESS - MEM_OFFSET) = (icp_flag_calculated \div 256) % 256
         /\ MemGet(mem, ICP_FLAG_ADDRESS - MEM_OFFSET + 1) = icp_flag_calculated % 256
    ELSE IcpFlagFromFile(mem) = icp_flag

\* The erase transfers are those of the erase blocks from 0xDC00 on, in
\* steps of 512; the program transfers are of program blocks, in increasing
\* order; a program transfer comes only after the erase transfers of all 14
\* blocks, and no erase transfer after a program transfer; the repair is
\* done when the first erase transfer is issued.
TransfersInOrder ==
  /\ Len(Addrs(log, "erase")) <= Len(AllEraseBlocks)
  /\ Addrs(log, "erase") = SubSeq(AllEraseBlocks, 1, Len(Addrs(log, "erase")))
  /\ Increasing(Addrs(log, "program"))
  /\ \A k \in 1..Len(Addrs(log, "program")) : Addrs(log, "program")[k] \in ProgramBlocks
  /\ Positions("program") # {} =>
       /\ Addrs(log, "erase") = AllEraseBlocks
       /\ erase_i = MemEnd
       /\ \A e \in Positions("erase"), p \in Positions("program") : e < p
  /\ Positions("erase") # {} => (file_open /\ FlagRepaired)

\* A block that the erase phase counts as erased was erased: its erase
\* transfer returned its 0 bytes and its status poll one byte, the status
\* byte 1.
ErasedStep ==
  (pc = "erase_poll" /\ pc' = "erase") => (result = 0 /\ result' = 1 /\ status' = 1)

\* C15: the erase transfers go through the erase blocks from 0xDC00 in
\* steps of 512 and the program transfers through program blocks in
\* increasing order; a program transfer is issued only after all 14 erase
\* blocks were erased with success; no erase transfer follows a program
\* transfer; the flag is repaired before the first erase transfer.
C15_PhaseOrder == [] TransfersInOrder /\ [][ErasedStep]_vars

\* ---------------------------------------------------------------- the wait for the device

\* The one-second waits of the log.
RetryWaits == SelectSeq(log, LAMBDA e : e = Sleep(1000))

\* At most 30 attempts are made and each failed one is followed by a wait
\* of one second; no attempt follows a successful one; after 30 failed
\* attempts the run is at HRM_CheckError or has exited with a device error,
\* no file was read and no erase or program transfer issued.
BoundedWait ==
  /\ i \in 0..30
  /\ Len(RetryWaits) = 30 - i
  /\ Len(RetryWaits) > 0 => pc # "clear"
  /\ pc = "init" => usb_dev # "open"
  /\ usb_dev = "open" => Len(RetryWaits) < 30
  /\ i = 0 =>
       /\ pc \in {"init_check", "exited"}
       /\ last_errorcode \in {HRM_USB_OPEN_ERROR, HRM_USB_CONFIG_ERROR}
       /\ pc = "exited" => exit_code = last_errorcode
       /\ ~file_open
       /\ file = <<>>
       /\ Positions("erase") = {}
       /\ Positions("program") = {}

\* C16: HRM_ICP_InitUSB is attempted at most 30 times, a wait of one second
\* follows each failed attempt, the loop ends at the first success, 30
\* failures end the run with a device error before the file is read or a
\* transfer issued; and every run exits.
C16_BoundedWaitAndExit == [] BoundedWait /\ <>(pc = "exited")

\* All 30 attempts have failed and the run has exited.
C16_Witness ==
  /\ pc = "exited"
  /\ i = 0
  /\ Len(RetryWaits) = 30
  /\ exit_code = HRM_USB_OPEN_ERROR

\* ---------------------------------------------------------------- a failed program block

\* The program phase has found its last block failed: the block's program
\* transfer is the last transfer and did not return 64 bytes, or its status
\* poll is and did not return one byte.
ProgramFailureDetected ==
  \/ LastTransferIs("program") /\ result # MEM_PROG_BLOCK_SIZE
  \/ LastPollOf("program") /\ result # 1

\* C17: once a program block is found failed, the run is at HRM_CheckError
\* with error 5 or has exited with 5; the failed block's transfer is the
\* last program transfer, and no block has two program transfers.
C17_ProgramFailureFatal ==
  ProgramFailureDetected =>
    /\ pc \in {"program_check", "exited"}
    /\ last_errorcode = HRM_FLASH_PROGRAM_ERROR
    /\ pc = "exited" => exit_code = HRM_FLASH_PROGRAM_ERROR
    /\ Addrs(log, "program")[Len(Addrs(log, "program"))] = prog_i
    /\ Increasing(Addrs(log, "program"))

\* The status poll of the second program block returned a transport error
\* and the run has exited.
C17_Witness ==
  /\ pc = "exited"
  /\ exit_code = HRM_FLASH_PROGRAM_ERROR
  /\ LastPollOf("program")
  /\ result # 1
  /\ Len(Addrs(log, "program")) = 2

\* ---------------------------------------------------------------- the steps of a block

IssueOps == {"erase", "program"}

\* A transfer follows position k of the log.
TransferAfter(k) == \E j \in (k + 1)..Len(log) : log[j].op # "sleep"

\* An issue transfer follows position k of the log.
IssueAfter(k) == \E j \in (k + 1)..Len(log) : log[j].op \in IssueOps

\* Every issue transfer that a transfer follows is followed by a delay and
\* then a status poll; every status poll that an issue transfer follows is
\* followed by a delay and then that issue transfer; the delay after a
\* program transfer is longer than the delay after an erase transfer.
BlockSteps ==
  /\ \A k \in 1..Len(log) :
       (log[k].op \in IssueOps /\ TransferAfter(k)) =>
         /\ k + 2 <= Len(log)
         /\ log[k + 1].op = "sleep"
         /\ log[k + 2].op = "status"
  /\ \A k \in 1..Len(log) :
       (log[k].op = "status" /\ IssueAfter(k)) =>
         /\ log[k + 1].op = "sleep"
         /\ log[k + 2].op \in IssueOps
  /\ \A e \in Positions("erase"), p \in Positions("program") :
       (e < Len(log) /\ p < Len(log)) =>
         /\ log[e + 1].op = "sleep"
         /\ log[p + 1].op = "sleep"
         /\ log[e + 1].a < log[p + 1].a

\* C18: in the log of every run each erase or program transfer that is not
\* the last transfer is followed by a delay, one status poll and a delay
\* before the next erase or program transfer, and the delay after a program
\* transfer is longer than the one after an erase transfer.
C18_BlockStepOrder == BlockSteps

\* A run has issued erase and program transfers, each with its poll.
C18_Witness ==
  /\ pc = "close"
  /\ Len(Ops(log, "erase")) = Len(AllEraseBlocks)
  /\ Len(Ops(log, "program")) >= 1
  /\ Len(Ops(log, "status")) = Len(Ops(log, "erase")) + Len(Ops(log, "program"))
  /\ log[Len(log) - 2] = Sleep(70)

\* ---------------------------------------------------------------- the handles

\* C19: the HID handle and the bootloader handle are never open together,
\* and at every attempt to open the bootloader device neither the HID
\* handle nor the bootloader handle of an earlier attempt is open.
C19_OneHandle ==
  /\ ~(hid_dev = "open" /\ usb_dev = "open")
  /\ pc = "init" => (hid_dev # "open" /\ usb_dev # "open")

\* The keys were given, the flag was cleared, and a configuration failure
\* is followed by the next attempt.
C19_Witness ==
  /\ pc = "init"
  /\ hid_dev = "closed"
  /\ usb_dev = "closed"
  /\ last_errorcode = HRM_USB_CONFIG_ERROR
  /\ i < 30

\* ---------------------------------------------------------------- the end record and other lines

\* The data records of f before its first end record.
RecordsRead(f) == DataRecords(ReadLines(f))

\* C20: the parse of a file leaves the image, and the error code, that the
\* parse of its data records before the first end record leaves: the lines
\* after that end record and the lines that begin with neither marker
\* change nothing and do not end the parse.
C20_EndAndOtherLines ==
  Parsed =>
    LET h == ReadS19(FileText(RecordsRead(file)), HrmAtRead)
    IN mem = h.mem /\ last_errorcode = h.last_errorcode

====
